---- MODULE Spec2Model ----
(***************************************************************************)
(* Weekly goal tracker (makeprogress): the user_goals and achievements     *)
(* tables, the select-goals and complete-goal request handlers of          *)
(* server/routes.ts and the storage statements of server/storage.ts they   *)
(* are built from.                                                         *)
(*                                                                         *)
(* Time is counted in hours since 1970-01-01 00:00 local time (a Thursday).*)
(* Row ids (gen_random_uuid) are drawn from a counter: an id is never      *)
(* handed out twice.                                                       *)
(***************************************************************************)
EXTENDS Integers, Sequences, FiniteSets, TLC

VARIABLES
    goals,          \* the goals table: goal id -> row
    userGoals,      \* the user_goals table: row id -> row
    achievements,   \* the achievements table: a set of rows
    nextId,         \* the next row id the database hands out
    now,            \* the server clock, in hours
    last,           \* the last request that was answered: its response and what its handler computed
    firstLevel,     \* history: per (user, week) the first result of the handler's calculation that was not "none"
    submitted,      \* history: the (user, week) pairs with a select-goals request answered 200
    reqs,           \* the requests in flight (used by the interleaved specification)
    overlapped,     \* history: the (operation, user, week) whose requests have run interleaved
    calc,           \* arguments and results of the last direct calls of the pure functions
    tokens,         \* the access tokens loginUser has handed out
    tokenBlacklist, \* the in-memory set of auth.ts
    friendships,    \* the friendships table: row id -> row
    activityFeed,   \* the activity_feed table: row id -> row
    sharedAchievements, \* the shared_achievements table: row id -> row
    nextSocialId,   \* the next row id of the three tables above
    scored,         \* arguments and result of the last direct call of the recommendation scorer
    categories,     \* the categories table: category id -> row
    seeding         \* the server process: where its run of initializeDefaultData stands

\* the state of the authentication and of the social features
\* the catalog of categories is written by the seeding alone
catalog == <<categories, seeding>>

more == <<tokens, tokenBlacklist, friendships, activityFeed, sharedAchievements, nextSocialId, scored,
          catalog>>

vars == <<goals, userGoals, achievements, nextId, now, last, firstLevel, submitted, reqs, overlapped, calc,
          more>>

----------------------------------------------------------------------------
(* Bounds of the model *)

StartTime == 84         \* Sunday 1970-01-04 12:00
MaxTime == 96           \* Monday 1970-01-05 00:00
TickHours == 12         \* the clock advances in steps of this many hours
MaxSelects == 2         \* select-goals requests that reach the database
MaxToggled == 2         \* complete-goal requests name one of the first MaxToggled rows of a selection
MaxToggledWeek == 8     \* the same, in the specification of one user's week
MaxToggledRace == 4     \* interleaved complete-goal requests name one of the MaxToggledRace oldest rows
MaxDays == 14           \* the dates given to getWeekStart directly lie in the first MaxDays days
MaxToggledSocial == 4    \* the same, in the specification of the social features
MaxCustomGoals == 2     \* custom goals ever created
MaxTokens == 2          \* tokens ever handed out, where requests of several clients are mixed
MaxRefills == 2         \* tokens handed out beyond the capacity of the blacklist
MaxSessionsBelowLimit == 60  \* the blacklist holds at least its capacity less this many tokens at the start
MaxHistory == 3         \* rows of the user's history given to the recommendation scorer
MaxOthers == 1          \* rows of other users for the candidate goal
MaxSocialRows == 3      \* rows ever inserted into friendships, activity_feed and shared_achievements
MaxStarts == 3          \* starts of the server process

(* Program constants *)

HoursPerDay == 24
SelectionSize == 12
DaysInWeekRange == 6
TrackThreshold == 2
RockThreshold == 4
SlayedThreshold == 6
GoalsPerCategory == 4

Users == {"u1", "u2"}

NULL == <<>>
Some(x) == <<x>>

----------------------------------------------------------------------------
(* The seeded catalog: 6 categories with 4 system goals each.  Category    *)
(* ids are 1..6 in the order of categoriesData, goal ids 1..24 in the      *)
(* order of goalsData.                                                     *)

CategoryNames == <<"Personal", "Inner Peace", "Health", "Family", "Career", "Fun">>

\* the categories table: category id -> name
Categories == [c \in 1..Len(CategoryNames) |-> [name |-> CategoryNames[c]]]

\* the goals table after seeding: goal id -> row
SeedGoals ==
    [g \in 1..(Len(CategoryNames) * GoalsPerCategory) |->
        [categoryId |-> ((g - 1) \div GoalsPerCategory) + 1, isCustom |-> FALSE, createdBy |-> NULL]]

\* the joins of getUserGoalsForWeek: userGoal.goal.category.name
CategoryNameOf(gs, gid) == Categories[gs[gid].categoryId].name

----------------------------------------------------------------------------
(* Dates *)

\* Date.prototype.getDay: 0 is Sunday; hour 0 is a Thursday
getDay(t) == ((t \div HoursPerDay) + 4) % 7

getWeekStartSkewed(t) ==
    LET daysToMonday == getDay(t) - 1
        moved == t - daysToMonday * HoursPerDay
    IN  moved - (moved % HoursPerDay)

getWeekStart(t) ==
    LET dayOfWeek == getDay(t)
        daysToMonday == IF dayOfWeek = 0 THEN 6 ELSE dayOfWeek - 1
        moved == t - daysToMonday * HoursPerDay         \* setDate(getDate() - daysToMonday)
    IN  moved - (moved % HoursPerDay)                   \* setHours(0, 0, 0, 0)

----------------------------------------------------------------------------
(* Achievement calculator *)

calculateAchievementLevelLowTrack(categoriesCompleted) ==
    IF categoriesCompleted >= SlayedThreshold THEN "slayed"
    ELSE IF categoriesCompleted >= RockThreshold THEN "rock"
    ELSE IF categoriesCompleted >= TrackThreshold - 1 THEN "track"
    ELSE "none"

calculateAchievementLevel(categoriesCompleted) ==
    IF categoriesCompleted >= SlayedThreshold THEN "slayed"
    ELSE IF categoriesCompleted >= RockThreshold THEN "rock"
    ELSE IF categoriesCompleted >= TrackThreshold THEN "track"
    ELSE "none"

----------------------------------------------------------------------------
(* Storage statements, as functions of the tables.  user_goals is keyed by  *)
(* its primary key: a function from row id to the rest of the row.         *)

Restrict(ug, ids) == [i \in ids |-> ug[i]]

\* getUserGoalsForWeek: the user's rows whose weekStart lies in [weekStart, weekStart + 6 days]
getUserGoalsForWeek(ug, userId, weekStart) ==
    Restrict(ug, { i \in DOMAIN ug :
                     /\ ug[i].userId = userId
                     /\ ug[i].weekStart >= weekStart
                     /\ ug[i].weekStart <= weekStart + DaysInWeekRange * HoursPerDay })

CategoriesCompletedAtLeastOne(gs, rows) ==
    LET done == { i \in DOMAIN rows : rows[i].completed }
    IN  Cardinality({ CategoryNameOf(gs, rows[i].goalId) : i \in done })

\* the handler's count: categories (by name) with at least 2 completed rows
CategoriesCompleted(gs, rows) ==
    LET done == { i \in DOMAIN rows : rows[i].completed }
        nameOf == [i \in done |-> CategoryNameOf(gs, rows[i].goalId)]
    IN  Cardinality({ c \in DOMAIN Categories :
            Cardinality({ i \in done : nameOf[i] = Categories[c].name }) >= TrackThreshold })

DeleteWeekRowsNothing(ug, userId, weekStart) == ug

DeleteWeekRowsAllWeeks(ug, userId, weekStart) ==
    Restrict(ug, { i \in DOMAIN ug : ~(ug[i].userId = userId) })

\* selectUserGoals, first statement
DeleteWeekRows(ug, userId, weekStart) ==
    Restrict(ug, { i \in DOMAIN ug : ~(ug[i].userId = userId /\ ug[i].weekStart = weekStart) })

\* selectUserGoals, second statement: the rows of the insert
NewRows(userId, goalIds, weekStart, base) ==
    [id \in base..(base + Len(goalIds) - 1) |->
        [userId |-> userId, goalId |-> goalIds[id - base + 1],
         weekStart |-> weekStart, completed |-> FALSE, completedAt |-> NULL]]

\* the insert fails as a whole when a goal_id references no goal
InsertFails(gs, goalIds) ==
    \E i \in 1..Len(goalIds) : goalIds[i] \notin DOMAIN gs

SetCompletionKeepsTimestamp(ug, id, isCompleting, t) ==
    IF id \in DOMAIN ug
      THEN [ug EXCEPT ![id].completed = isCompleting,
                      ![id].completedAt = IF isCompleting THEN Some(t) ELSE @]
      ELSE ug

\* toggleGoalCompletion, the update statement
SetCompletion(ug, id, isCompleting, t) ==
    IF id \in DOMAIN ug
      THEN [ug EXCEPT ![id].completed = isCompleting,
                      ![id].completedAt = IF isCompleting THEN Some(t) ELSE NULL]
      ELSE ug

getWeeklyAchievementNone(ach, userId, weekStart) == {}

\* getWeeklyAchievement: the rows of (user, week); the caller takes the first, if any
getWeeklyAchievement(ach, userId, weekStart) ==
    { a \in ach : a.userId = userId /\ a.weekStart = weekStart }

\* createAchievement: the row of the insert; rows are never deleted, so the count gives a fresh id
NewAchievement(ach, userId, weekStart, categoriesCompleted, level) ==
    [id |-> Cardinality(ach) + 1, userId |-> userId, weekStart |-> weekStart,
     categoriesCompleted |-> categoriesCompleted, level |-> level]

----------------------------------------------------------------------------
(* Request inputs *)

FirstTwo == <<1, 2, 5, 6, 9, 10, 13, 14, 17, 18, 21, 22>>     \* 2 per category
ThreeCategories == <<1, 2, 3, 4, 5, 6, 7, 8, 9, 10, 11, 12>>  \* 12 goals, 4 of each of 3 categories
UnknownGoal == <<1, 2, 5, 6, 9, 10, 13, 14, 17, 18, 21, 99>>  \* 12 ids, the last one of no goal
Eleven == SubSeq(FirstTwo, 1, 11)
Thirteen == Append(FirstTwo, 23)

\* the bodies whose goalIds is an array; a body without one is given as isArray = FALSE
ArrayBodies == {FirstTwo, ThreeCategories, UnknownGoal, Eleven, Thirteen}

UnknownRowId == 0

----------------------------------------------------------------------------
(* Requests served one after the other: each handler in one step *)

\* of deleted rows: their goal ids and how many of them were completed
Summary(rows) ==
    [goalIds |-> { rows[i].goalId : i \in DOMAIN rows },
     completed |-> Cardinality({ i \in DOMAIN rows : rows[i].completed })]

NoRows == Summary(<<>>)

NoRequest ==
    [op |-> "none", userId |-> "", status |-> 0, replaced |-> NoRows,
     categoriesCompleted |-> 0, level |-> "none", target |-> ""]

\* what a select-goals request leaves in last: replaced describes the rows it deleted
Selected(userId, status, replaced) ==
    [op |-> "select", userId |-> userId, status |-> status, replaced |-> replaced,
     categoriesCompleted |-> 0, level |-> "none", target |-> ""]

\* what a complete-goal request leaves in last
Completed(userId, status, categoriesCompleted, level) ==
    [op |-> "complete", userId |-> userId, status |-> status, replaced |-> NoRows,
     categoriesCompleted |-> categoriesCompleted, level |-> level, target |-> ""]

\* what any other request leaves in last: target is the user, row or token it named
Answered(op, userId, status, target) ==
    [NoRequest EXCEPT !.op = op, !.userId = userId, !.status = status, !.target = target]


Key(userId, weekStart) == [userId |-> userId, weekStart |-> weekStart]

\* two requests can be in flight at the same time
Slots == {1, 2}

Idle == [op |-> "none", pc |-> "idle", userId |-> "", goalIds |-> <<>>, id |-> 0,
         weekStart |-> 0, isCompleting |-> FALSE, categoriesCompleted |-> 0, level |-> "none"]

NoCall == [c |-> -1, level |-> "none", date |-> -1, weekStart |-> -1]

NoScore == [goalId |-> 0, attempts |-> 0, completions |-> 0, categoryAttempts |-> 0,
            categoryCompletions |-> 0, custom |-> FALSE, history |-> 0, globalAttempts |-> 0,
            globalCompletions |-> 0, num |-> 0, den |-> 1]

\* a server that seeded the catalog on its first start and serves requests
Serving == [pc |-> "serving", starts |-> 1, failed |-> FALSE]

\* the tables after seeding, no request in flight
InitTables ==
    /\ goals = SeedGoals
    /\ userGoals = <<>>
    /\ achievements = {}
    /\ nextId = 1
    /\ now = StartTime
    /\ firstLevel = {}
    /\ submitted = {}
    /\ reqs = [s \in Slots |-> Idle]
    /\ overlapped = {}
    /\ calc = NoCall
    /\ friendships = <<>>
    /\ activityFeed = <<>>
    /\ sharedAchievements = <<>>
    /\ nextSocialId = 1
    /\ scored = NoScore
    /\ categories = Categories
    /\ seeding = Serving

Init ==
    /\ InitTables
    /\ last = NoRequest
    /\ tokens = {}
    /\ tokenBlacklist = {}

ValidSelectionAtLeast(isArray, goalIds) ==
    isArray /\ Len(goalIds) >= SelectionSize

\* the handler's validation: Array.isArray(goalIds) && goalIds.length === 12
ValidSelection(isArray, goalIds) ==
    isArray /\ Len(goalIds) = SelectionSize

\* POST /api/user/select-goals answered 400
SelectGoalsRejected(userId, isArray, goalIds) ==
    /\ ~ValidSelection(isArray, goalIds)
    /\ last' = Selected(userId, 400, NoRows)
    /\ UNCHANGED <<goals, userGoals, achievements, nextId, now, firstLevel, submitted,
                   reqs, overlapped, calc, more>>

\* POST /api/user/select-goals past the validation: selectUserGoals deletes, then inserts
SelectGoalsStored(userId, isArray, goalIds) ==
    /\ ValidSelection(isArray, goalIds)
    /\ nextId <= (MaxSelects - 1) * SelectionSize + 1
    /\ LET weekStart == getWeekStart(now)
           kept == DeleteWeekRows(userGoals, userId, weekStart)
           replaced == Summary(Restrict(userGoals, DOMAIN userGoals \ DOMAIN kept))
       IN  IF InsertFails(goals, goalIds)
             THEN /\ userGoals' = kept
                  /\ nextId' = nextId
                  /\ last' = Selected(userId, 500, replaced)
                  /\ submitted' = submitted
             ELSE /\ userGoals' = kept @@ NewRows(userId, goalIds, weekStart, nextId)
                  /\ nextId' = nextId + Len(goalIds)
                  /\ last' = Selected(userId, 200, replaced)
                  /\ submitted' = submitted \cup {Key(userId, weekStart)}
    /\ UNCHANGED <<goals, achievements, now, firstLevel, reqs, overlapped, calc, more>>

SelectGoals(userId, isArray, goalIds) ==
    \/ SelectGoalsRejected(userId, isArray, goalIds)
    \/ SelectGoalsStored(userId, isArray, goalIds)

ShouldCreateAlways(existingAchievement, level) ==
    existingAchievement = {}

ShouldCreateNoCheck(existingAchievement, level) ==
    level # "none"

\* the handler's condition: !existingAchievement && level !== "none"
ShouldCreate(existingAchievement, level) ==
    existingAchievement = {} /\ level # "none"

\* PATCH /api/user-goals/:id/complete
CompleteGoal(userId, id) ==
    IF id \notin DOMAIN userGoals
      THEN /\ last' = Completed(userId, 500, 0, "none")     \* "User goal not found" is thrown
           /\ UNCHANGED <<goals, userGoals, achievements, nextId, now, firstLevel, submitted,
                          reqs, overlapped, calc, more>>
      ELSE LET existingGoal == userGoals[id]
               isCompleting == ~existingGoal.completed
               updated == SetCompletion(userGoals, id, isCompleting, now)
               weekStart == getWeekStart(now)
               allUserGoals == getUserGoalsForWeek(updated, userId, weekStart)
               categoriesCompleted == CategoriesCompleted(goals, allUserGoals)
               existingAchievement == getWeeklyAchievement(achievements, userId, weekStart)
               level == calculateAchievementLevel(categoriesCompleted)
           IN  /\ userGoals' = updated
               /\ IF ShouldCreate(existingAchievement, level)
                    THEN achievements' = achievements \cup
                              {NewAchievement(achievements, userId, weekStart, categoriesCompleted, level)}
                    ELSE UNCHANGED achievements
               /\ firstLevel' =
                    IF level # "none" /\ ~(\E f \in firstLevel : f.key = Key(userId, weekStart))
                      THEN firstLevel \cup {[key |-> Key(userId, weekStart),
                                             categoriesCompleted |-> categoriesCompleted,
                                             level |-> level]}
                      ELSE firstLevel
               /\ last' = Completed(userId, 200, categoriesCompleted, level)
               /\ UNCHANGED <<goals, nextId, now, submitted, reqs, overlapped, calc, more>>

\* time passes between two requests
Tick ==
    /\ now + TickHours <= MaxTime
    /\ now' = now + TickHours
    /\ UNCHANGED <<goals, userGoals, achievements, nextId, last, firstLevel, submitted,
                   reqs, overlapped, calc, more>>

\* the ids a complete-goal request may name: the first n rows of every selection, and an id of no row
RowIds(n) == {i \in DOMAIN userGoals : (i - 1) % SelectionSize < n} \cup {UnknownRowId}

Next ==
    \/ \E u \in Users : SelectGoals(u, FALSE, <<>>)
    \/ \E u \in Users, g \in ArrayBodies : SelectGoals(u, TRUE, g)
    \/ \E u \in Users, id \in RowIds(MaxToggled) : CompleteGoal(u, id)
    \/ Tick

Spec == Init /\ [][Next]_vars

----------------------------------------------------------------------------
(* One user's week: only WeekUser selects goals, every user may name any   *)
(* of the first MaxToggledWeek rows, the clock stands still.               *)

WeekUser == "u1"

WeekBodies == {FirstTwo, UnknownGoal, Eleven}

NextWeek ==
    \/ SelectGoals(WeekUser, FALSE, <<>>)
    \/ \E g \in WeekBodies : SelectGoals(WeekUser, TRUE, g)
    \/ \E u \in Users, id \in RowIds(MaxToggledWeek) : CompleteGoal(u, id)

SpecWeek == Init /\ [][NextWeek]_vars

----------------------------------------------------------------------------
(* Interleaved requests.  A handler runs up to its next await in one step; *)
(* every statement it awaits is executed by the database in one step.      *)
(* Only RaceUser sends requests and the clock stands still; these steps    *)
(* show the tables, not the responses (last and firstLevel keep their      *)
(* values).                                                                *)

RaceUser == "u1"

RaceBodies == {FirstTwo, UnknownGoal, Eleven}

InFlight(op, userId) == { s \in Slots : reqs[s].op = op /\ reqs[s].userId = userId }

Overlap(op, userId) == [op |-> op, userId |-> userId]

\* the ids a complete-goal request may name here: the n oldest rows of the table, and an id of no row
OldestRowIds(n) ==
    { i \in DOMAIN userGoals : Cardinality({ j \in DOMAIN userGoals : j < i }) < n }
        \cup {UnknownRowId}

\* a new request takes the first free slot
Free(s) == reqs[s].pc = "idle" /\ \A t \in Slots : t < s => reqs[t].pc # "idle"

\* select-goals: the validation, getWeekStart(), and the delete statement is sent
StartSelect(s, userId, isArray, goalIds) ==
    /\ Free(s)
    /\ IF ~ValidSelection(isArray, goalIds)
         THEN UNCHANGED <<reqs, overlapped>>        \* answered 400
         ELSE /\ nextId + (Cardinality(InFlight("select", userId)) + 1) * SelectionSize
                    <= MaxSelects * SelectionSize + 1
              /\ reqs' = [reqs EXCEPT ![s] =
                    [Idle EXCEPT !.op = "select", !.pc = "delete", !.userId = userId,
                                 !.goalIds = goalIds, !.weekStart = getWeekStart(now)]]
              /\ overlapped' = IF InFlight("select", userId) # {}
                                 THEN overlapped \cup {Overlap("select", userId)}
                                 ELSE overlapped
    /\ UNCHANGED <<goals, userGoals, achievements, nextId, now, last, firstLevel, submitted, calc, more>>

\* selectUserGoals: the delete statement is executed
SelectDelete(s) ==
    /\ reqs[s].pc = "delete"
    /\ userGoals' = DeleteWeekRows(userGoals, reqs[s].userId, reqs[s].weekStart)
    /\ reqs' = [reqs EXCEPT ![s].pc = "insert"]
    /\ UNCHANGED <<goals, achievements, nextId, now, last, firstLevel, submitted, overlapped, calc, more>>

\* selectUserGoals: the insert statement is executed and the request is answered
SelectInsert(s) ==
    /\ reqs[s].pc = "insert"
    /\ LET r == reqs[s]
       IN  IF InsertFails(goals, r.goalIds)
             THEN UNCHANGED <<userGoals, nextId, submitted>>        \* answered 500
             ELSE /\ userGoals' = userGoals @@ NewRows(r.userId, r.goalIds, r.weekStart, nextId)
                  /\ nextId' = nextId + Len(r.goalIds)
                  /\ submitted' = submitted \cup {Key(r.userId, r.weekStart)}
    /\ reqs' = [reqs EXCEPT ![s] = Idle]
    /\ UNCHANGED <<goals, achievements, now, last, firstLevel, overlapped, calc, more>>

\* complete-goal, toggleGoalCompletion: the select by id is executed
ToggleRead(s, userId, id) ==
    /\ Free(s)
    /\ IF id \notin DOMAIN userGoals
         THEN UNCHANGED <<reqs, overlapped>>        \* "User goal not found": answered 500
         ELSE /\ reqs' = [reqs EXCEPT ![s] =
                    [Idle EXCEPT !.op = "complete", !.pc = "update", !.userId = userId,
                                 !.id = id, !.isCompleting = ~userGoals[id].completed]]
              /\ overlapped' = IF InFlight("complete", userId) # {}
                                 THEN overlapped \cup {Overlap("complete", userId)}
                                 ELSE overlapped
    /\ UNCHANGED <<goals, userGoals, achievements, nextId, now, last, firstLevel, submitted, calc, more>>

\* toggleGoalCompletion: the update by id is executed (on no row, if the row is gone)
ToggleUpdate(s) ==
    /\ reqs[s].pc = "update"
    /\ userGoals' = SetCompletion(userGoals, reqs[s].id, reqs[s].isCompleting, now)
    /\ reqs' = [reqs EXCEPT ![s].pc = "readWeek", ![s].id = 0, ![s].isCompleting = FALSE]
    /\ UNCHANGED <<goals, achievements, nextId, now, last, firstLevel, submitted, overlapped, calc, more>>

\* complete-goal: getWeekStart(), getUserGoalsForWeek is executed, the categories are counted
ReadWeek(s) ==
    /\ reqs[s].pc = "readWeek"
    /\ LET weekStart == getWeekStart(now)
           allUserGoals == getUserGoalsForWeek(userGoals, reqs[s].userId, weekStart)
       IN  reqs' = [reqs EXCEPT ![s].pc = "readAchievement",
                                ![s].weekStart = weekStart,
                                ![s].categoriesCompleted = CategoriesCompleted(goals, allUserGoals)]
    /\ UNCHANGED <<goals, userGoals, achievements, nextId, now, last, firstLevel, submitted,
                   overlapped, calc, more>>

\* complete-goal: getWeeklyAchievement is executed; the request is answered unless a row is to be created
ReadAchievement(s) ==
    /\ reqs[s].pc = "readAchievement"
    /\ LET r == reqs[s]
           existingAchievement == getWeeklyAchievement(achievements, r.userId, r.weekStart)
           level == calculateAchievementLevel(r.categoriesCompleted)
       IN  IF ShouldCreate(existingAchievement, level)
             THEN reqs' = [reqs EXCEPT ![s].pc = "create", ![s].level = level]
             ELSE reqs' = [reqs EXCEPT ![s] = Idle]         \* answered 200
    /\ UNCHANGED <<goals, userGoals, achievements, nextId, now, last, firstLevel, submitted,
                   overlapped, calc, more>>

\* complete-goal: createAchievement is executed and the request is answered
CreateAchievement(s) ==
    /\ reqs[s].pc = "create"
    /\ LET r == reqs[s]
       IN  achievements' = achievements \cup
                {NewAchievement(achievements, r.userId, r.weekStart, r.categoriesCompleted, r.level)}
    /\ reqs' = [reqs EXCEPT ![s] = Idle]
    /\ UNCHANGED <<goals, userGoals, nextId, now, last, firstLevel, submitted, overlapped, calc, more>>

NextRace ==
    \/ \E s \in Slots : StartSelect(s, RaceUser, FALSE, <<>>)
    \/ \E s \in Slots, g \in RaceBodies : StartSelect(s, RaceUser, TRUE, g)
    \/ \E s \in Slots : SelectDelete(s)
    \/ \E s \in Slots : SelectInsert(s)
    \/ \E s \in Slots, id \in OldestRowIds(MaxToggledRace) : ToggleRead(s, RaceUser, id)
    \/ \E s \in Slots : ToggleUpdate(s)
    \/ \E s \in Slots : ReadWeek(s)
    \/ \E s \in Slots : ReadAchievement(s)
    \/ \E s \in Slots : CreateAchievement(s)

SpecRace == Init /\ [][NextRace]_vars

----------------------------------------------------------------------------
(* Friendships.  Every registered user has an e-mail address; a request    *)
(* names its addressee by e-mail.                                          *)

EmailOf == ("u1" :> "u1@example.com") @@ ("u2" :> "u2@example.com")

UnknownEmail == "nobody@example.com"

NoEmail == ""

\* sendFriendRequest, first statement: the users with that e-mail (at most one: the column is unique)
getUserByEmail(email) == { u \in Users : EmailOf[u] = email }

ExistingFriendshipOneDirection(fr, requesterId, addresseeId) ==
    { i \in DOMAIN fr : fr[i].requesterId = requesterId /\ fr[i].addresseeId = addresseeId }

\* sendFriendRequest, second statement: the rows between the two users, in either direction, of any status
ExistingFriendship(fr, requesterId, addresseeId) ==
    { i \in DOMAIN fr :
        \/ fr[i].requesterId = requesterId /\ fr[i].addresseeId = addresseeId
        \/ fr[i].requesterId = addresseeId /\ fr[i].addresseeId = requesterId }

\* the rows sendFriendRequest leaves in the table; the table itself when it throws
sendFriendRequest(fr, requesterId, addresseeEmail, id) ==
    LET addressee == getUserByEmail(addresseeEmail)
    IN  IF addressee = {} THEN fr                                   \* "User not found with that email address"
        ELSE LET addresseeId == CHOOSE u \in addressee : TRUE
             IN  IF addresseeId = requesterId THEN fr               \* "Cannot send friend request to yourself"
                 ELSE IF ExistingFriendship(fr, requesterId, addresseeId) # {} THEN fr
                 ELSE fr @@ (id :> [requesterId |-> requesterId, addresseeId |-> addresseeId,
                                    status |-> "pending"])

\* respondToFriendRequest: the update by id
respondToFriendRequest(fr, friendshipId, status) ==
    IF friendshipId \in DOMAIN fr THEN [fr EXCEPT ![friendshipId].status = status] ELSE fr

getFriendsAnyStatus(fr, userId) ==
    { u \in Users : \E i \in DOMAIN fr :
        \/ fr[i].requesterId = userId /\ u = fr[i].addresseeId
        \/ fr[i].addresseeId = userId /\ u = fr[i].requesterId }

\* getFriends: the users joined to an accepted row that names userId on either side
getFriends(fr, userId) ==
    { u \in Users : \E i \in DOMAIN fr :
        /\ fr[i].status = "accepted"
        /\ \/ fr[i].requesterId = userId /\ u = fr[i].addresseeId
           \/ fr[i].addresseeId = userId /\ u = fr[i].requesterId }

\* removeFriend: the delete of the accepted rows between the two users
removeFriend(fr, userId, friendId) ==
    Restrict(fr, { i \in DOMAIN fr :
        ~(/\ fr[i].status = "accepted"
          /\ \/ fr[i].requesterId = userId /\ fr[i].addresseeId = friendId
             \/ fr[i].requesterId = friendId /\ fr[i].addresseeId = userId) })

\* POST /api/friends/request
SendFriendRequest(userId, email) ==
    /\ IF email = NoEmail
         THEN /\ last' = Answered("friendRequest", userId, 400, email)      \* "Email is required"
              /\ UNCHANGED <<friendships, nextSocialId>>
         ELSE LET stored == sendFriendRequest(friendships, userId, email, nextSocialId)
              IN  /\ friendships' = stored
                  /\ IF stored = friendships
                       THEN /\ last' = Answered("friendRequest", userId, 400, email)
                            /\ UNCHANGED nextSocialId
                       ELSE /\ nextSocialId <= MaxSocialRows
                            /\ last' = Answered("friendRequest", userId, 201, email)
                            /\ nextSocialId' = nextSocialId + 1
    /\ UNCHANGED <<goals, userGoals, achievements, nextId, now, firstLevel, submitted, reqs, overlapped,
                   calc, tokens, tokenBlacklist, activityFeed, sharedAchievements, scored, catalog>>

\* PATCH /api/friends/requests/:id
RespondToFriendRequest(userId, id, status) ==
    /\ IF status \notin {"accepted", "declined"}
         THEN /\ last' = Answered("friendRespond", userId, 400, "")
              /\ UNCHANGED friendships
         ELSE IF id \notin DOMAIN friendships
         THEN /\ last' = Answered("friendRespond", userId, 400, "")         \* "Friend request not found"
              /\ UNCHANGED friendships
         ELSE /\ friendships' = respondToFriendRequest(friendships, id, status)
              /\ last' = Answered("friendRespond", userId, 200, "")
    /\ UNCHANGED <<goals, userGoals, achievements, nextId, now, firstLevel, submitted, reqs, overlapped,
                   calc, tokens, tokenBlacklist, activityFeed, sharedAchievements, nextSocialId, scored, catalog>>

\* DELETE /api/friends/:id
RemoveFriend(userId, friendId) ==
    /\ friendships' = removeFriend(friendships, userId, friendId)
    /\ last' = Answered("friendRemove", userId, 204, "")
    /\ UNCHANGED <<goals, userGoals, achievements, nextId, now, firstLevel, submitted, reqs, overlapped,
                   calc, tokens, tokenBlacklist, activityFeed, sharedAchievements, nextSocialId, scored, catalog>>

\* the row ids a request may name: those of the table, and an id of no row
FriendshipIds == DOMAIN friendships \cup {UnknownRowId}

FriendActions ==
    \/ \E u \in Users, e \in { EmailOf[v] : v \in Users } \cup {UnknownEmail, NoEmail} :
          SendFriendRequest(u, e)
    \/ \E u \in Users, id \in FriendshipIds, st \in {"accepted", "declined", "blocked"} :
          RespondToFriendRequest(u, id, st)
    \/ \E u \in Users, f \in Users : RemoveFriend(u, f)

----------------------------------------------------------------------------
(* Shared achievements and the activity feed *)

FeedLimit == 50

\* the sharedWith of a request body; a body without one is given as NoSharedWith
NoSharedWith == ""

SharedWithValues == {"friends", "public", NoSharedWith} \cup Users

UnknownAchievementId == 0

\* shareAchievement: the row of the insert
NewShare(userId, achievementId, sharedWith) ==
    [userId |-> userId, achievementId |-> achievementId, sharedWith |-> sharedWith]

\* createActivity: the row of the insert
NewActivity(userId, activityType, isPublic) ==
    [userId |-> userId, activityType |-> activityType, isPublic |-> isPublic]

\* [userId, ...friendIds.map(friend => friend.id)]
allUserIds(fr, userId) == {userId} \cup getFriends(fr, userId)

\* getSharedAchievements: the ids of the rows returned
getSharedAchievements(sh, ach, fr, userId) ==
    { i \in DOMAIN sh :
        /\ \E a \in ach : a.id = sh[i].achievementId                \* inner join achievements
        /\ \/ sh[i].sharedWith = "public"
           \/ sh[i].sharedWith = "friends"
           \/ sh[i].userId \in allUserIds(fr, userId) }

getActivityFeedOwnOnly(af, fr, userId) ==
    { i \in DOMAIN af : af[i].userId = userId /\ af[i].isPublic = TRUE }

\* getActivityFeed: the ids of the rows returned, the FeedLimit most recent of those selected
getActivityFeed(af, fr, userId) ==
    LET selected == { i \in DOMAIN af :
                        /\ af[i].userId \in allUserIds(fr, userId)
                        /\ af[i].isPublic = TRUE }
    IN  { i \in selected : Cardinality({ j \in selected : j > i }) < FeedLimit }

\* POST /api/achievements/:id/share
ShareAchievement(userId, achievementId, sharedWithOfBody) ==
    LET sharedWith == IF sharedWithOfBody = NoSharedWith THEN "friends" ELSE sharedWithOfBody
    IN  /\ IF ~(\E a \in achievements : a.id = achievementId)
             THEN /\ last' = Answered("share", userId, 500, "")     \* the insert fails: no such achievement
                  /\ UNCHANGED <<sharedAchievements, activityFeed, nextSocialId>>
             ELSE /\ nextSocialId <= MaxSocialRows
                  /\ sharedAchievements' = sharedAchievements @@
                        (nextSocialId :> NewShare(userId, achievementId, sharedWith))
                  /\ activityFeed' = activityFeed @@
                        (nextSocialId :> NewActivity(userId, "achievement_shared", TRUE))
                  /\ nextSocialId' = nextSocialId + 1
                  /\ last' = Answered("share", userId, 201, "")
        /\ UNCHANGED <<goals, userGoals, achievements, nextId, now, firstLevel, submitted, reqs, overlapped,
                       calc, tokens, tokenBlacklist, friendships, scored, catalog>>

AchievementIds == { a.id : a \in achievements } \cup {UnknownAchievementId}

\* Only SocialOwner selects goals (the 2-per-category list, once) and completes them, in the
\* order of the list; every user sends friend requests, answers them and shares achievements.
\* The clock stands still.
SocialOwner == "u2"

\* the first row of the table that is not completed, among the first n
NextToComplete(n) ==
    { i \in DOMAIN userGoals :
        /\ i <= n /\ ~userGoals[i].completed
        /\ \A j \in DOMAIN userGoals : j < i => userGoals[j].completed }

SpecFriends == Init /\ [][FriendActions]_vars

NextSocial ==
    \/ nextId = 1 /\ SelectGoalsStored(SocialOwner, TRUE, FirstTwo)
    \/ \E id \in NextToComplete(MaxToggledSocial) : CompleteGoal(SocialOwner, id)
    \/ FriendActions
    \/ \E u \in Users, id \in AchievementIds, w \in SharedWithValues : ShareAchievement(u, id, w)

SpecSocial == Init /\ [][NextSocial]_vars

----------------------------------------------------------------------------
(* Custom goals and the endpoints that return goals *)

DescriptionLimit == 200

\* a description is given by its length and its length once trimmed; length 0 also stands for a
\* body without one
Descriptions ==
    { [length |-> 0, trimmed |-> 0], [length |-> 3, trimmed |-> 0], [length |-> 5, trimmed |-> 5],
      [length |-> DescriptionLimit, trimmed |-> DescriptionLimit],
      [length |-> DescriptionLimit + 1, trimmed |-> DescriptionLimit] }

UnknownCategoryId == 0

\* the category ids a request may name in this model
CategoryIdsOfRequests == {1, Len(CategoryNames), UnknownCategoryId}

\* createCustomGoal: the row of the insert
NewCustomGoal(categoryId, userId) ==
    [categoryId |-> categoryId, isCustom |-> TRUE, createdBy |-> Some(userId)]

getGoalsByCategoryAndUserAnyCreator(gs, categoryId, userId) ==
    { g \in DOMAIN gs : gs[g].categoryId = categoryId }

\* getGoalsByCategoryAndUser: the ids of the goals returned
getGoalsByCategoryAndUser(gs, categoryId, userId) ==
    { g \in DOMAIN gs :
        /\ gs[g].categoryId = categoryId
        /\ (gs[g].isCustom = FALSE \/ gs[g].createdBy = Some(userId)) }

\* GET /api/user/goals/week: the ids of the goals joined to the rows returned
WeekGoals(userId) ==
    LET rows == getUserGoalsForWeek(userGoals, userId, getWeekStart(now))
    IN  { rows[i].goalId : i \in DOMAIN rows }

\* GET /api/user/progress: per category name the completed and the total rows of the week
Progress(userId) ==
    LET rows == getUserGoalsForWeek(userGoals, userId, getWeekStart(now))
    IN  [c \in { CategoryNameOf(goals, rows[i].goalId) : i \in DOMAIN rows } |->
            [completed |-> Cardinality({ i \in DOMAIN rows :
                                /\ CategoryNameOf(goals, rows[i].goalId) = c
                                /\ rows[i].completed }),
             total |-> Cardinality({ i \in DOMAIN rows : CategoryNameOf(goals, rows[i].goalId) = c })]]

\* GET /api/user/progress: its categoriesCompleted
ProgressCategoriesCompleted(userId) ==
    Cardinality({ c \in DOMAIN Progress(userId) : Progress(userId)[c].completed >= TrackThreshold })

\* POST /api/categories/:id/goals
CreateCustomGoal(userId, categoryId, description) ==
    /\ IF description.length = 0 \/ description.trimmed = 0
         THEN /\ last' = Answered("customGoal", userId, 400, "")       \* "Goal description is required"
              /\ UNCHANGED goals
         ELSE IF description.length > DescriptionLimit
         THEN /\ last' = Answered("customGoal", userId, 400, "")
              /\ UNCHANGED goals
         ELSE IF categoryId \notin DOMAIN categories
         THEN /\ last' = Answered("customGoal", userId, 500, "")       \* the insert fails: no such category
              /\ UNCHANGED goals
         ELSE /\ Cardinality({ g \in DOMAIN goals : goals[g].isCustom }) < MaxCustomGoals
              /\ goals' = goals @@ ((Cardinality(DOMAIN goals) + 1) :> NewCustomGoal(categoryId, userId))
              /\ last' = Answered("customGoal", userId, 201, "")
    /\ UNCHANGED <<userGoals, achievements, nextId, now, firstLevel, submitted, reqs, overlapped, calc, more>>

\* 12 goal ids: 11 system goals and the first custom goal
WithCustom == <<1, 2, 5, 6, 9, 10, 13, 14, 17, 18, 21, 25>>

CustomBodies == {FirstTwo, WithCustom, Eleven}

\* every user creates custom goals and selects goals; the clock stands still
NextCustom ==
    \/ \E u \in Users, c \in CategoryIdsOfRequests, d \in Descriptions : CreateCustomGoal(u, c, d)
    \/ \E u \in Users, g \in CustomBodies : SelectGoals(u, TRUE, g)

SpecCustom == Init /\ [][NextCustom]_vars

----------------------------------------------------------------------------
(* Authentication: JSON web tokens and the in-memory blacklist *)

BlacklistLimit == 10000

AccessTokenMinutes == 15

MinutesPerHour == 60

\* A token is the encoding of its payload, here as a number: of the user, of the hour it was
\* signed in, and of a serial that tells apart the tokens signed within one hour.  A positive
\* number carries a signature made with JWT_SECRET, a negative one any other signature.
UserOrder == <<"u1", "u2">>

UserIndex(userId) == CHOOSE k \in 1..Len(UserOrder) : UserOrder[k] = userId

TimeModulus == 1000

\* generateToken: jwt.sign({ userId }, JWT_SECRET, { expiresIn: "15m" })
NewToken(userId, t, serial) == (serial * TimeModulus + t) * Len(UserOrder) + UserIndex(userId) - 1

\* a token that was not signed with JWT_SECRET
ForgedToken(userId, t) == 0 - NewToken(userId, t, 1)

\* authHeader.slice(7) of the header "Bearer "
EmptyToken == 0

\* the payload and the signature of a token
Payload(token) == IF token < 0 THEN 0 - token ELSE token

TokenUserId(token) == UserOrder[(Payload(token) % Len(UserOrder)) + 1]

TokenIat(token) == (Payload(token) \div Len(UserOrder)) % TimeModulus

TokenSigned(token) == token > 0

\* the Authorization header of a request
NoHeader == [scheme |-> "none", token |-> EmptyToken]

BasicHeader == [scheme |-> "Basic", token |-> EmptyToken]

Bearer(token) == [scheme |-> "Bearer", token |-> token]

\* jwt.verify: the signature and the expiry, 15 minutes after the token was signed
jwtVerify(token, t) ==
    /\ TokenSigned(token)
    /\ t * MinutesPerHour < TokenIat(token) * MinutesPerHour + AccessTokenMinutes

verifyTokenIgnoringBlacklist(blacklist, token, t) ==
    IF jwtVerify(token, t) THEN Some(TokenUserId(token)) ELSE NULL

\* verifyToken: the decoded user id, or null
verifyToken(blacklist, token, t) ==
    IF token \in blacklist THEN NULL
    ELSE IF jwtVerify(token, t) THEN Some(TokenUserId(token))
    ELSE NULL

blacklistTokenNoCleanup(blacklist, token) == blacklist \cup {token}

\* blacklistToken: the set after the call
blacklistToken(blacklist, token) ==
    LET added == blacklist \cup {token}
    IN  IF Cardinality(added) > BlacklistLimit THEN {} ELSE added

\* isAuthenticated: the user id put into req.user, or null when the request is answered 401
isAuthenticated(header, blacklist, t) ==
    IF header.scheme # "Bearer" \/ header.token = EmptyToken THEN NULL
    ELSE verifyToken(blacklist, header.token, t)

\* what a request carried, for the record of the last request
Carried(header) ==
    IF header.scheme # "Bearer" THEN header.scheme
    ELSE IF header.token = EmptyToken THEN "empty"
    ELSE IF TokenSigned(header.token) THEN "signed" ELSE "forged"

\* POST /api/auth/login: loginUser hands out a token when the password is verified
Login(userId, passwordVerified) ==
    /\ IF passwordVerified
         THEN /\ tokens' = tokens \cup {NewToken(userId, now, Cardinality(tokens) + 1)}
              /\ last' = Answered("login", userId, 200, "")
         ELSE /\ last' = Answered("login", userId, 401, "")     \* "Invalid email or password"
              /\ UNCHANGED tokens
    /\ UNCHANGED <<goals, userGoals, achievements, nextId, now, firstLevel, submitted, reqs, overlapped,
                   calc, tokenBlacklist, friendships, activityFeed, sharedAchievements, nextSocialId,
                   scored, catalog>>

\* a request to any route behind isAuthenticated that is answered 401: next() is not called
AuthRejected(header) ==
    /\ isAuthenticated(header, tokenBlacklist, now) = NULL
    /\ last' = Answered("auth", "", 401, Carried(header))
    /\ UNCHANGED <<goals, userGoals, achievements, nextId, now, firstLevel, submitted, reqs, overlapped,
                   calc, more>>

\* POST /api/auth/logout
Logout(header) ==
    LET decoded == isAuthenticated(header, tokenBlacklist, now)
    IN  /\ decoded # NULL
        /\ tokenBlacklist' = blacklistToken(tokenBlacklist, header.token)
        /\ last' = Answered("logout", decoded[1], 200, Carried(header))
        /\ UNCHANGED <<goals, userGoals, achievements, nextId, now, firstLevel, submitted, reqs,
                       overlapped, calc, tokens, friendships, activityFeed, sharedAchievements,
                       nextSocialId, scored, catalog>>

\* POST /api/user/select-goals behind isAuthenticated
AuthSelectGoals(header, isArray, goalIds) ==
    LET decoded == isAuthenticated(header, tokenBlacklist, now)
    IN  /\ decoded # NULL
        /\ SelectGoals(decoded[1], isArray, goalIds)

AuthBodies == {FirstTwo, Eleven}

\* a request to a route behind isAuthenticated
Request(header) ==
    \/ AuthRejected(header)
    \/ Logout(header)
    \/ \E g \in AuthBodies : AuthSelectGoals(header, TRUE, g)

\* the headers a request may carry: none, another scheme, "Bearer " alone, a token handed out,
\* a forged token
Headers ==
    {NoHeader, BasicHeader, Bearer(EmptyToken)}
        \cup { Bearer(t) : t \in tokens }
        \cup { Bearer(ForgedToken(u, now)) : u \in Users }

NextAuth ==
    \/ \E u \in Users, ok \in BOOLEAN : Cardinality(tokens) < MaxTokens /\ Login(u, ok)
    \/ \E h \in Headers : Request(h)
    \/ Tick

SpecAuth == Init /\ [][NextAuth]_vars

\* One client logs in and out again, over and over: every token is blacklisted before the next
\* one is handed out, and the clock stands still.  The specification starts after n such
\* sessions, for n = 0 and for the n that leave the blacklist nearly full or full.
BlacklistUser == "u1"

\* the tokens of the first n sessions
Sessions(n) == { NewToken(BlacklistUser, StartTime, k) : k \in 1..n }

PastSessions == {0} \cup ((BlacklistLimit - MaxSessionsBelowLimit)..BlacklistLimit)

InitBlacklist ==
    /\ InitTables
    /\ \E n \in PastSessions :
          /\ tokens = Sessions(n)
          /\ tokenBlacklist = Sessions(n)
          /\ last = IF n = 0 THEN NoRequest ELSE Answered("logout", BlacklistUser, 200, "signed")

\* the token handed out last
NewestToken == {NewToken(BlacklistUser, now, Cardinality(tokens))} \cap tokens

NextBlacklist ==
    \/ /\ last.op # "login"
       /\ Cardinality(tokens) < BlacklistLimit + MaxRefills
       /\ Login(BlacklistUser, TRUE)
    \/ /\ last.op = "login"
       /\ \E t \in NewestToken : Logout(Bearer(t))

SpecBlacklist == InitBlacklist /\ [][NextBlacklist]_vars

----------------------------------------------------------------------------
(* The recommendation scorer (storage.getGoalRecommendations), from its     *)
(* description: six additive signals and two bonuses, floored at 0.  A      *)
(* history is a sequence of user_goals rows, each with its goal, its        *)
(* completed flag and the age of its week; the global history is given by   *)
(* the rows of the other users for the candidate goal.  A score is the      *)
(* fraction num / den.                                                      *)

ScoreUser == "u1"

\* the goals table of the scorer's inputs: the seeded goals and a custom goal of ScoreUser
ScoreGoals == SeedGoals @@ (25 :> NewCustomGoal(1, ScoreUser))

\* candidates: a goal of the history, a goal of its category, a goal of another category, the custom goal
Candidates == {1, 2, 9, 25}

HistoryRows == [goalId : {1, 5}, completed : BOOLEAN, weeksAgo : {1, 6}]

Histories == UNION { [1..n -> HistoryRows] : n \in 0..MaxHistory }

NewGoalBonusSmall(attempts) == IF attempts = 0 THEN 10 ELSE 0

\* signal 1: never attempted
NewGoalBonus(attempts) == IF attempts = 0 THEN 20 ELSE 0

CustomBonusNone(isCustom) == 0

\* the bonus of a goal the user wrote
CustomBonus(isCustom) == IF isCustom THEN 5 ELSE 0

FloorAtZeroMissing(num) == num

\* the floor of the score
FloorAtZero(num) == IF num < 0 THEN 0 ELSE num

\* the score of candidate g for a user history, with othersAttempts rows of other users for g of
\* which othersCompletions are completed
RecommendationScore(gs, hist, othersAttempts, othersCompletions, g) ==
    LET cat == gs[g].categoryId
        ofGoal == { i \in DOMAIN hist : hist[i].goalId = g }
        ofCategory == { i \in DOMAIN hist : gs[hist[i].goalId].categoryId = cat }
        attempts == Cardinality(ofGoal)
        completions == Cardinality({ i \in ofGoal : hist[i].completed })
        categoryAttempts == Cardinality(ofCategory)
        categoryCompletions == Cardinality({ i \in ofCategory : hist[i].completed })
        recent == \E i \in ofCategory : hist[i].weeksAgo <= 4
        globalAttempts == attempts + othersAttempts
        globalCompletions == completions + othersCompletions
        categoriesOfHistory == { gs[hist[i].goalId].categoryId : i \in DOMAIN hist }
        \* frequency of the category below the average frequency per category
        diverse == categoryAttempts * Cardinality(categoriesOfHistory) < Len(hist)
        a == IF attempts = 0 THEN 1 ELSE attempts
        ca == IF categoryAttempts = 0 THEN 1 ELSE categoryAttempts
        ga == IF globalAttempts = 0 THEN 1 ELSE globalAttempts
        den == a * ca * ga
        whole == NewGoalBonus(attempts)
                   + (IF attempts > 0 /\ completions = 0 THEN 0 - 5 ELSE 0)
                   + (IF recent THEN 5 ELSE 0)
                   + CustomBonus(gs[g].isCustom)
                   + (IF diverse THEN 3 ELSE 0)
        num == whole * den
                 + 15 * completions * ca * ga
                 + 10 * categoryCompletions * a * ga
                 + 8 * globalCompletions * a * ca
    IN  [goalId |-> g, attempts |-> attempts, completions |-> completions,
         categoryAttempts |-> categoryAttempts, categoryCompletions |-> categoryCompletions,
         custom |-> gs[g].isCustom, history |-> Len(hist), globalAttempts |-> globalAttempts,
         globalCompletions |-> globalCompletions, num |-> FloorAtZero(num), den |-> den]

\* GET /api/goals/recommendations: the score of one candidate
Score(hist, othersAttempts, othersCompletions, g) ==
    /\ scored' = RecommendationScore(ScoreGoals, hist, othersAttempts, othersCompletions, g)
    /\ UNCHANGED <<goals, userGoals, achievements, nextId, now, last, firstLevel, submitted, reqs,
                   overlapped, calc, tokens, tokenBlacklist, friendships, activityFeed,
                   sharedAchievements, nextSocialId, catalog>>

\* the scorer keeps no state: one call on every input shows every result
NextScore ==
    /\ scored = NoScore
    /\ \E hist \in Histories, oa \in 0..MaxOthers, g \in Candidates :
          \E oc \in 0..oa : Score(hist, oa, oc, g)

SpecScore == Init /\ [][NextScore]_vars

----------------------------------------------------------------------------
(* The week of one user whose complete-goal requests name rows of three    *)
(* categories only; every user may send them, the clock stands still.      *)

ProgressUser == "u1"

ExampleCategories == {"Personal", "Health", "Fun"}

ProgressBodies == {FirstTwo, Eleven}

\* the rows of the example's categories, and an id of no row
ExampleRowIds ==
    { i \in DOMAIN userGoals : CategoryNameOf(goals, userGoals[i].goalId) \in ExampleCategories }
        \cup {UnknownRowId}

NextProgress ==
    \/ \E g \in ProgressBodies : SelectGoals(ProgressUser, TRUE, g)
    \/ \E u \in Users, id \in ExampleRowIds : CompleteGoal(u, id)

SpecProgress == Init /\ [][NextProgress]_vars

----------------------------------------------------------------------------
(* Seeding.  registerRoutes awaits initializeDefaultData before it         *)
(* registers a route: the process serves requests only after the run.     *)
(* The inserts of the run are taken in the order of categoriesData and     *)
(* goalsData; any of them can fail, and the process can stop at any time.  *)

\* nothing stored, no process running
InitSeed ==
    /\ goals = <<>>
    /\ userGoals = <<>>
    /\ achievements = {}
    /\ nextId = 1
    /\ now = StartTime
    /\ last = NoRequest
    /\ firstLevel = {}
    /\ submitted = {}
    /\ reqs = [s \in Slots |-> Idle]
    /\ overlapped = {}
    /\ calc = NoCall
    /\ tokens = {}
    /\ tokenBlacklist = {}
    /\ friendships = <<>>
    /\ activityFeed = <<>>
    /\ sharedAchievements = <<>>
    /\ nextSocialId = 1
    /\ scored = NoScore
    /\ categories = <<>>
    /\ seeding = [pc |-> "down", starts |-> 0, failed |-> FALSE]

\* the rest of the state, which the seeding leaves alone
notCatalog == <<userGoals, achievements, nextId, now, last, firstLevel, submitted, reqs, overlapped, calc,
                tokens, tokenBlacklist, friendships, activityFeed, sharedAchievements, nextSocialId,
                scored>>

\* the server process starts: registerRoutes calls initializeDefaultData
ServerStart ==
    /\ seeding.pc = "down"
    /\ seeding.starts < MaxStarts
    /\ seeding' = [pc |-> "check", starts |-> seeding.starts + 1, failed |-> FALSE]
    /\ UNCHANGED <<goals, categories, notCatalog>>

\* initializeDefaultData: getCategories and the test existingCategories.length === 0
SeedCheck ==
    /\ seeding.pc = "check"
    /\ seeding' = [seeding EXCEPT !.pc = IF DOMAIN categories = {} THEN "categories" ELSE "serving"]
    /\ UNCHANGED <<goals, categories, notCatalog>>

\* initializeDefaultData: one createCategory of categoriesData
SeedCategory ==
    /\ seeding.pc = "categories"
    /\ LET c == Cardinality(DOMAIN categories) + 1
       IN  /\ categories' = categories @@ (c :> [name |-> CategoryNames[c]])
           /\ seeding' = [seeding EXCEPT !.pc = IF c = Len(CategoryNames) THEN "goals" ELSE @]
    /\ UNCHANGED <<goals, notCatalog>>

\* initializeDefaultData: one createGoal of goalsData
SeedGoal ==
    /\ seeding.pc = "goals"
    /\ LET g == Cardinality(DOMAIN goals) + 1
       IN  /\ goals' = goals @@ (g :> SeedGoals[g])
           /\ seeding' = [seeding EXCEPT !.pc = IF g = Len(SeedGoals) THEN "serving" ELSE @]
    /\ UNCHANGED <<categories, notCatalog>>

\* initializeDefaultData: an insert fails; the error is caught and logged, the server goes on
SeedFails ==
    /\ seeding.pc \in {"categories", "goals"}
    /\ seeding' = [seeding EXCEPT !.pc = "serving", !.failed = TRUE]
    /\ UNCHANGED <<goals, categories, notCatalog>>

\* the process stops, at any point of its life
ServerStop ==
    /\ seeding.pc # "down"
    /\ seeding' = [seeding EXCEPT !.pc = "down"]
    /\ UNCHANGED <<goals, categories, notCatalog>>

SeedUser == "u1"

NextSeed ==
    \/ ServerStart
    \/ SeedCheck
    \/ SeedCategory
    \/ SeedGoal
    \/ SeedFails
    \/ ServerStop
    \/ /\ seeding.pc = "serving"
       /\ \E c \in CategoryIdsOfRequests, d \in Descriptions : CreateCustomGoal(SeedUser, c, d)

SpecSeed == InitSeed /\ [][NextSeed]_vars

----------------------------------------------------------------------------
(* Analytics: read-only aggregation over the user_goals rows *)

\* the default of the weeks parameter of GET /api/analytics/weekly-stats
DefaultWeeks == 12

DaysPerWeek == 7

\* getWeeklyCompletionStats: per week key of the user's rows with weekStart in [startDate, endDate],
\* the number of rows, the number of completed rows (completionRate is their quotient) and the
\* size of the set of category ids of the completed rows
getWeeklyCompletionStats(ug, gs, userId, startDate, endDate) ==
    LET result == { i \in DOMAIN ug : /\ ug[i].goalId \in DOMAIN gs
                                      /\ ug[i].userId = userId
                                      /\ ug[i].weekStart >= startDate
                                      /\ ug[i].weekStart <= endDate }
    IN  [week \in { ug[i].weekStart : i \in result } |->
            LET ofWeek == { i \in result : ug[i].weekStart = week }
                done == { i \in ofWeek : ug[i].completed }
            IN  [totalGoals |-> Cardinality(ofWeek),
                 completedGoals |-> Cardinality(done),
                 categoriesCompleted |-> Cardinality({ gs[ug[i].goalId].categoryId : i \in done })]]

\* GET /api/analytics/weekly-stats with the default number of weeks
WeeklyStats(userId) ==
    getWeeklyCompletionStats(userGoals, goals, userId,
                             now - DefaultWeeks * DaysPerWeek * HoursPerDay, now)

----------------------------------------------------------------------------
(* The pure functions, called directly on every input of a bounded range *)

Calculate(c) ==
    /\ calc' = [calc EXCEPT !.c = c, !.level = calculateAchievementLevel(c)]
    /\ UNCHANGED <<goals, userGoals, achievements, nextId, now, last, firstLevel, submitted,
                   reqs, overlapped, more>>

WeekStartOf(t) ==
    /\ calc' = [calc EXCEPT !.date = t, !.weekStart = getWeekStart(t)]
    /\ UNCHANGED <<goals, userGoals, achievements, nextId, now, last, firstLevel, submitted,
                   reqs, overlapped, more>>

NextPure ==
    \/ \E c \in 0..Len(CategoryNames) : Calculate(c)
    \/ \E t \in 0..(MaxDays * HoursPerDay) : WeekStartOf(t)

SpecPure == Init /\ [][NextPure]_vars

----------------------------------------------------------------------------
(* Properties *)

RowsOf(ug, userId, weekStart) ==
    { i \in DOMAIN ug : ug[i].userId = userId /\ ug[i].weekStart = weekStart }

Range(f) == { f[i] : i \in DOMAIN f }

\* C1: for every c in 0..6 the calculator returns "none" for c < 2, "track" for 2 and 3,
\* "rock" for 4 and 5, "slayed" for 6.
C1_LevelTable ==
    calc.c \in 0..6 =>
        /\ calc.c < 2 => calc.level = "none"
        /\ calc.c \in {2, 3} => calc.level = "track"
        /\ calc.c \in {4, 5} => calc.level = "rock"
        /\ calc.c = 6 => calc.level = "slayed"

C1_Witness == calc.c = 6 /\ calc.level = "slayed"

\* C2: with requests served one after the other there is at most one achievement row per
\* (user, week-start); a toggle that raises the tier again inserts no second row.
C2_AtMostOneAchievement ==
    \A a, b \in achievements :
        (a.userId = b.userId /\ a.weekStart = b.weekStart) => a = b

\* a toggle of the row's owner computed "rock" while the stored row of that week says "track"
C2_Witness ==
    /\ last.op = "complete" /\ last.status = 200 /\ last.level = "rock"
    /\ \E a \in achievements :
        /\ a.userId = last.userId /\ a.weekStart = getWeekStart(now)
        /\ a.level = "track"
    /\ Cardinality(achievements) = 1

StoredIsFirstLevel ==
    /\ \A a \in achievements : \E f \in firstLevel :
          /\ f.key = Key(a.userId, a.weekStart)
          /\ f.categoriesCompleted = a.categoriesCompleted
          /\ f.level = a.level
    /\ \A f \in firstLevel : \E a \in achievements : f.key = Key(a.userId, a.weekStart)

C4_AchievementRowsWellFormed ==
    \A a \in achievements :
        /\ a.level \in {"track", "rock", "slayed"}
        /\ a.categoriesCompleted >= 2
        /\ a.level = calculateAchievementLevel(a.categoriesCompleted)

C4_Witness ==
    \E a \in achievements : a.level = "rock" /\ a.categoriesCompleted = 4

\* C5: a select-goals request answered 200 leaves the user's rows of the week equal to the 12
\* submitted goal ids, none completed, whatever was stored before (so submitting a list twice
\* gives the same rows as submitting it once), and leaves every other row as it was.
C5_SelectionReplacesWeek ==
    [][ \A u \in Users, g \in ArrayBodies :
          (SelectGoals(u, TRUE, g) /\ last'.status = 200) =>
            LET w == getWeekStart(now)
                mine == RowsOf(userGoals', u, w)
            IN  /\ Cardinality(mine) = 12
                /\ \A i \in mine : /\ ~userGoals'[i].completed
                                   /\ userGoals'[i].completedAt = NULL
                                   /\ userGoals'[i].goalId \in Range(g)
                /\ \A gid \in Range(g) :
                      Cardinality({ i \in mine : userGoals'[i].goalId = gid })
                        = Cardinality({ k \in DOMAIN g : g[k] = gid })
                /\ Restrict(userGoals', DOMAIN userGoals' \ mine)
                     = Restrict(userGoals, DOMAIN userGoals \ RowsOf(userGoals, u, w)) ]_vars

\* the same 12 ids were submitted again over rows of which some were completed
C5_Witness ==
    /\ last.op = "select" /\ last.status = 200
    /\ last.replaced.completed > 0
    /\ LET mine == RowsOf(userGoals, last.userId, getWeekStart(now))
       IN  /\ { userGoals[i].goalId : i \in mine } = last.replaced.goalIds
           /\ \A i \in mine : ~userGoals[i].completed

\* C6: once a selection was accepted for (user, week), the user has exactly 12 rows for that
\* week, exactly 2 in each of the 6 categories.
C6_TwoPerCategory ==
    \A k \in submitted :
        LET mine == RowsOf(userGoals, k.userId, k.weekStart)
        IN  /\ Cardinality(mine) = 12
            /\ \A c \in DOMAIN Categories :
                  Cardinality({ i \in mine : goals[userGoals[i].goalId].categoryId = c }) = 2

\* C7: a select-goals request whose goalIds is not an array of exactly 12 elements is answered
\* 400 and changes no user_goals row.
C7_BadSelectionRejected ==
    [][ \A u \in Users, isArray \in BOOLEAN, g \in ArrayBodies \cup {<<>>} :
          (SelectGoals(u, isArray, g) /\ ~(isArray /\ Len(g) = 12)) =>
            (last'.status = 400 /\ userGoals' = userGoals) ]_vars

C7_Witness ==
    /\ last.op = "select" /\ last.status = 400
    /\ \E i \in DOMAIN userGoals : userGoals[i].userId = last.userId /\ userGoals[i].completed

\* C8: a select-goals request that passes the validation and whose insert fails is answered
\* 500 and leaves the user's previous rows of the week, with their completion flags, stored.
C8_FailedSelectionKeepsRows ==
    [][ \A u \in Users, g \in ArrayBodies :
          (SelectGoals(u, TRUE, g) /\ Len(g) = 12 /\ InsertFails(goals, g)) =>
            (last'.status = 500 /\ userGoals' = userGoals) ]_vars

\* C9: two select-goals requests of one user that interleave can leave more than 12 rows for
\* the week; without interleaved select-goals requests of that user there are never more than 12.
C9_MoreThanTwelveOnlyInterleaved ==
    \A u \in Users, w \in { userGoals[i].weekStart : i \in DOMAIN userGoals } :
        Cardinality(RowsOf(userGoals, u, w)) > 12 => Overlap("select", u) \in overlapped

\* both deletes ran before both inserts: the week holds 24 rows and no request is in flight
C9_Witness ==
    /\ \A s \in Slots : reqs[s].pc = "idle"
    /\ Cardinality(RowsOf(userGoals, RaceUser, getWeekStart(now))) = 24

\* C10: two complete-goal requests of one user that interleave can both insert an achievement
\* row for the week; without interleaved complete-goal requests of that user there is at most one.
C10_TwoAchievementsOnlyInterleaved ==
    \A a, b \in achievements :
        (a # b /\ a.userId = b.userId /\ a.weekStart = b.weekStart)
            => Overlap("complete", a.userId) \in overlapped

C10_Witness ==
    /\ \A s \in Slots : reqs[s].pc = "idle"
    /\ \E a, b \in achievements : a # b /\ a.userId = b.userId /\ a.weekStart = b.weekStart

\* the friendship rows between two users, in either direction
Between(fr, a, b) ==
    { i \in DOMAIN fr : {fr[i].requesterId, fr[i].addresseeId} = {a, b} }

\* C11: a friend request from A to the e-mail of B is answered with an error and inserts no row
\* when B is A, or when a pending or accepted row between A and B exists in either direction.
C11_FriendRequestRejected ==
    [][ \A a \in Users, b \in Users :
          ( /\ SendFriendRequest(a, EmailOf[b])
            /\ \/ b = a
               \/ \E i \in Between(friendships, a, b) : friendships[i].status \in {"pending", "accepted"} )
          => (last'.status = 400 /\ friendships' = friendships) ]_vars

\* B's request to A is pending and A's request to B was just rejected
C11_Witness ==
    /\ last.op = "friendRequest" /\ last.status = 400
    /\ \E b \in Users \ {last.userId} :
          /\ last.target = EmailOf[b]
          /\ \E i \in DOMAIN friendships :
                /\ friendships[i].requesterId = b /\ friendships[i].addresseeId = last.userId
                /\ friendships[i].status = "pending"

\* C12: a custom goal created by one user is never returned to another user, neither by the
\* goal listing of a category nor with the other user's goals of the current week (the progress
\* endpoint returns counts per category, no goals).
C12_CustomGoalPrivate ==
    \A u \in Users, g \in DOMAIN goals :
        (goals[g].isCustom /\ goals[g].createdBy # Some(u)) =>
            /\ \A c \in DOMAIN Categories : g \notin getGoalsByCategoryAndUser(goals, c, u)
            /\ g \notin WeekGoals(u)

\* C13: a complete-goal request that names a row owned by another user leaves that row as it was.
C13_ToggleOnlyOwnRows ==
    [][ \A u \in Users, id \in DOMAIN userGoals :
          (CompleteGoal(u, id) /\ userGoals[id].userId # u) =>
            /\ userGoals'[id].completed = userGoals[id].completed
            /\ userGoals'[id].completedAt = userGoals[id].completedAt ]_vars

\* C14: getSharedAchievements(u) returns a row only if its owner is u, its owner is an accepted
\* friend of u, or the row is shared with "public"; a row shared with "friends" by a user who
\* is not an accepted friend of u is not returned to u.
C14_SharedOnlyWithFriends ==
    \A u \in Users :
        \A i \in getSharedAchievements(sharedAchievements, achievements, friendships, u) :
            \/ sharedAchievements[i].userId = u
            \/ sharedAchievements[i].userId \in getFriends(friendships, u)
            \/ sharedAchievements[i].sharedWith = "public"

\* the activity rows getActivityFeed(u) is to return: those of u and of u's accepted friends
OwnAndFriends(u) ==
    { i \in DOMAIN activityFeed : activityFeed[i].userId \in {u} \cup getFriends(friendships, u) }

\* C15: getActivityFeed(u) returns at most 50 rows, among them every row owned by u or by an
\* accepted friend of u unless 50 more recent rows are returned, and a row of any other owner
\* only if it is marked public.
C15_FeedOfSelfAndFriends ==
    \A u \in Users :
        LET feed == getActivityFeed(activityFeed, friendships, u)
        IN  /\ Cardinality(feed) <= 50
            /\ \A i \in OwnAndFriends(u) \ feed :
                  Cardinality(feed) = 50 /\ \A j \in feed : j > i
            /\ \A i \in feed \ OwnAndFriends(u) : activityFeed[i].isPublic = TRUE

\* a user is returned a row of an accepted friend, and the friendship was made after the row
C15_Witness ==
    \E u \in Users :
        \E i \in getActivityFeed(activityFeed, friendships, u) :
            /\ activityFeed[i].userId # u
            /\ \E f \in Between(friendships, u, activityFeed[i].userId) :
                  f > i /\ friendships[f].status = "accepted"

\* C16: B is a friend of A exactly when A is a friend of B, and exactly when an accepted row
\* between them exists in either direction; pending and declined rows make no friends.
C16_FriendsSymmetric ==
    \A a \in Users, b \in Users :
        /\ (b \in getFriends(friendships, a)) <=> (a \in getFriends(friendships, b))
        /\ (b \in getFriends(friendships, a)) <=>
              (\E i \in Between(friendships, a, b) : friendships[i].status = "accepted")

\* the addressee sees the requester as a friend after the request was accepted
C16_Witness ==
    \E i \in DOMAIN friendships :
        /\ friendships[i].status = "accepted"
        /\ friendships[i].requesterId \in getFriends(friendships, friendships[i].addresseeId)
        /\ last.op = "friendRespond" /\ last.status = 200

\* the stored state: the tables and the blacklist
Stored == <<goals, userGoals, achievements, friendships, activityFeed, sharedAchievements, tokenBlacklist>>

\* C17: a request to an authenticated endpoint without a Bearer header, or with a token that
\* fails verification (forged, expired) or is blacklisted, is answered 401 and changes no
\* stored state.
C17_Unauthenticated401 ==
    [][ \A h \in Headers :
          ( /\ Request(h)
            /\ \/ h.scheme # "Bearer"
               \/ h.token = EmptyToken
               \/ ~TokenSigned(h.token)
               \/ now * 60 >= TokenIat(h.token) * 60 + 15
               \/ h.token \in tokenBlacklist )
          => (last'.status = 401 /\ Stored' = Stored) ]_vars

\* a signed token was rejected while no token handed out has expired: it is blacklisted
C17_Witness ==
    /\ last.op = "auth" /\ last.status = 401 /\ last.target = "signed"
    /\ \A t \in tokens : TokenIat(t) = now
    /\ tokenBlacklist # {}

\* C18: the blacklist never holds more than 10000 tokens, and a blacklistToken call that brings
\* it above 10000 empties it.
C18_BlacklistBounded ==
    [][ /\ Cardinality(tokenBlacklist') <= 10000
        /\ (Cardinality(tokenBlacklist) = 10000 /\ tokenBlacklist' # tokenBlacklist)
              => tokenBlacklist' = {} ]_vars

\* the 10001st token was blacklisted: the set is empty again
C18_Witness ==
    /\ last.op = "logout"
    /\ Cardinality(tokens) = 10001
    /\ tokenBlacklist = {}

\* C19: the recommendation score of every candidate is at least 0, also for a goal attempted
\* without a completion in a category without completions.
C19_ScoreNotNegative ==
    scored.num >= 0 /\ scored.den > 0

\* a goal attempted and never completed, in a category without completions and without recent
\* rows, completed by nobody else: the signals add up to -5 and the score is the floor
C19_Witness ==
    /\ scored.attempts > 0 /\ scored.completions = 0 /\ scored.categoryCompletions = 0
    /\ scored.num = 0

\* C20: a candidate the user never attempted scores at least 20.
C20_NeverAttemptedAtLeast20 ==
    (scored.goalId # 0 /\ scored.attempts = 0) => scored.num >= 20 * scored.den

\* a never attempted goal of a category the user has attempted without completing anything
C20_Witness ==
    /\ scored.goalId # 0 /\ scored.attempts = 0
    /\ scored.categoryAttempts > 0 /\ scored.categoryCompletions = 0
    /\ scored.num = 20 * scored.den

C22_StatsCountCompleteCategories ==
    \A u \in Users : \A week \in DOMAIN WeeklyStats(u) :
        WeeklyStats(u)[week].categoriesCompleted
            = CategoriesCompleted(goals, Restrict(userGoals, RowsOf(userGoals, u, week)))

\* C23: after a logout that succeeded with a token, a request that bears this token is answered
\* 401, also after the logout that brings the blacklist above its threshold.  (Where one client
\* logs in and out in turn, the token of the last logout is the token handed out last.)
C23_LoggedOutTokenRejected ==
    (last.op = "logout" /\ last.status = 200)
        => \A t \in NewestToken : isAuthenticated(Bearer(t), tokenBlacklist, now) = NULL

\* C24: after a complete-goal request answered successfully, if the owner of the toggled row has
\* at least 2 complete categories in the week of that row, an achievement row exists for that
\* owner and that week, whoever sent the request.
C24_AchievementForOwnerAndWeek ==
    [][ \A u \in Users, id \in DOMAIN userGoals :
          CompleteGoal(u, id) =>
            LET owner == userGoals[id].userId
                week == userGoals[id].weekStart
                rows == Restrict(userGoals', RowsOf(userGoals', owner, week))
            IN  CategoriesCompleted(goals, rows) >= TrackThreshold
                  => \E a \in achievements' : a.userId = owner /\ a.weekStart = week ]_vars

\* the rows of the example of C25: 2 completed in Personal, 2 in Health, 1 in Fun, none elsewhere
ExampleRows(userId) ==
    LET p == Progress(userId)
    IN  /\ DOMAIN p = { CategoryNames[c] : c \in DOMAIN CategoryNames }
        /\ \A c \in DOMAIN p :
              p[c].completed = (IF c \in {"Personal", "Health"} THEN 2 ELSE IF c = "Fun" THEN 1 ELSE 0)

\* C25: the categoriesCompleted of a complete-goal request is the number of categories with at
\* least 2 completed rows among the requester's rows of the current week, and the progress
\* endpoint reports the same number for these rows; for the rows Personal 2, Health 2, Fun 1,
\* others 0 it is 2 and the level is "track".
C25_CategoryCount ==
    (last.op = "complete" /\ last.status = 200) =>
        LET rows == getUserGoalsForWeek(userGoals, last.userId, getWeekStart(now))
            complete == { c \in DOMAIN Categories :
                            Cardinality({ i \in DOMAIN rows :
                                            /\ goals[rows[i].goalId].categoryId = c
                                            /\ rows[i].completed }) >= 2 }
        IN  /\ last.categoriesCompleted = Cardinality(complete)
            /\ ProgressCategoriesCompleted(last.userId) = last.categoriesCompleted
            /\ ExampleRows(last.userId)
                  => (last.categoriesCompleted = 2 /\ last.level = "track")

C25_Witness ==
    /\ last.op = "complete"
    /\ last.status = 200
    /\ ExampleRows(last.userId)
    /\ last.categoriesCompleted = 2

\* C26: a toggle of an existing row negates its completed flag and changes nothing else but its
\* completedAt, and a second toggle gives the flag it had before; a toggle of an unknown id
\* fails and changes no row; in every state a row has completedAt set exactly when it is
\* completed.
C26_ToggleFlips ==
    /\ [](\A i \in DOMAIN userGoals : userGoals[i].completed <=> userGoals[i].completedAt # NULL)
    /\ [][ \A u \in Users, id \in DOMAIN userGoals \cup {UnknownRowId} :
            CompleteGoal(u, id) =>
              IF id \in DOMAIN userGoals
                THEN /\ DOMAIN userGoals' = DOMAIN userGoals
                     /\ userGoals'[id].completed = ~userGoals[id].completed
                     /\ userGoals'[id] = [userGoals[id] EXCEPT !.completed = userGoals'[id].completed,
                                                               !.completedAt = userGoals'[id].completedAt]
                     /\ \A j \in DOMAIN userGoals : j # id => userGoals'[j] = userGoals[j]
                     /\ SetCompletion(userGoals', id, ~userGoals'[id].completed, now')[id].completed
                           = userGoals[id].completed
                ELSE /\ userGoals' = userGoals
                     /\ last'.status = 500 ]_vars

C26_Witness ==
    /\ last.op = "complete"
    /\ last.status = 200
    /\ \E i, j \in DOMAIN userGoals :
          /\ userGoals[i].completed /\ userGoals[i].completedAt # NULL
          /\ ~userGoals[j].completed /\ userGoals[j].completedAt = NULL

\* C27: the status of a friendship row changes only from pending to accepted or from pending to
\* declined; a response to a row already accepted or declined leaves its status as it was.
C27_StatusOnlyFromPending ==
    [][ \A i \in DOMAIN friendships \cap DOMAIN friendships' :
          friendships'[i].status # friendships[i].status =>
            /\ friendships[i].status = "pending"
            /\ friendships'[i].status \in {"accepted", "declined"} ]_vars

\* C28: a response to a friend request sent by a user who is not its addressee leaves the
\* friendship row unchanged.
C28_OnlyAddresseeResponds ==
    [][ \A u \in Users, id \in DOMAIN friendships, status \in {"accepted", "declined"} :
          (RespondToFriendRequest(u, id, status) /\ friendships[id].addresseeId # u)
              => friendships'[id] = friendships[id] ]_vars

\* the number of the Monday-to-Sunday week of a date, counted from the week of 1970-01-01 (a Thursday)
WeekIndex(t) == (t + 3 * HoursPerDay) \div (DaysPerWeek * HoursPerDay)

\* C29: getWeekStart(d) is a Monday at 00:00, not later than d and less than 7 days before d (for
\* a Sunday it is the Monday 6 days earlier); getWeekStart of it is itself; every date of the
\* same Monday-to-Sunday week has the same week start.
C29_WeekStartIsMonday ==
    calc.date >= 0 =>
        /\ getDay(calc.weekStart) = 1
        /\ calc.weekStart % HoursPerDay = 0
        /\ calc.weekStart <= calc.date
        /\ calc.date - calc.weekStart < DaysPerWeek * HoursPerDay
        /\ getDay(calc.date) = 0
              => (calc.date - (calc.date % HoursPerDay)) - calc.weekStart = 6 * HoursPerDay
        /\ getWeekStart(calc.weekStart) = calc.weekStart
        /\ \A t \in 0..(MaxDays * HoursPerDay) :
              WeekIndex(t) = WeekIndex(calc.date) <=> getWeekStart(t) = calc.weekStart

C29_Witness ==
    /\ calc.date >= DaysPerWeek * HoursPerDay
    /\ getDay(calc.date) = 0
    /\ calc.date % HoursPerDay = HoursPerDay - 1
    /\ calc.date - calc.weekStart = DaysPerWeek * HoursPerDay - 1

\* the system goals of a category
SystemGoals(c) == { g \in DOMAIN goals : goals[g].categoryId = c /\ ~goals[g].isCustom }

\* C30: when a start of the server has run initializeDefaultData without a failure of its own,
\* whatever happened in the runs before it, the catalog holds exactly the 6 categories and
\* exactly 4 system goals in each of them; no request modifies or deletes a category or a goal.
C30_SeedingIdempotent ==
    /\ []((seeding.pc = "serving" /\ ~seeding.failed) =>
            /\ categories = Categories
            /\ \A c \in DOMAIN categories : Cardinality(SystemGoals(c)) = GoalsPerCategory)
    /\ [][ (seeding.pc = "serving" /\ seeding'.pc = "serving") =>
            /\ categories' = categories
            /\ \A g \in DOMAIN goals : g \in DOMAIN goals' /\ goals'[g] = goals[g] ]_vars

====
